---- MODULE Spec2Model ----
(***************************************************************************)
(* State-machine model of BarcodeScannerWeb (src/src/web.ts): the scan     *)
(* lifecycle of the web implementation of the barcode scanner plugin.      *)
(*                                                                         *)
(* JavaScript is single threaded: every stretch of code between two        *)
(* awaits runs atomically and is one action here.  The browser (camera     *)
(* requests, playback start) and the decode engine (control creation,      *)
(* per-frame callbacks) are the environment; their answers are actions     *)
(* of their own.                                                           *)
(*                                                                         *)
(* Slot p \in Procs is the p-th call of prepare, startScan or              *)
(* resumeScanning (the calls that suspend).                                *)
(* The acquisition started by slot p (the async closure of                 *)
(* _getVideoElement), its probe stream, its real stream and its <video>    *)
(* element carry the id p; so does the decode control created for the      *)
(* decode session of slot p.                                               *)
(***************************************************************************)
EXTENDS Integers, Sequences, FiniteSets

\* ------------------------------------------------------------------ bounds
MaxCalls == 2
MaxStops == 1
MaxWarnings == 2
MaxHides == 2

Procs == 1 .. MaxCalls
None  == 0

\* ------------------------------------------------------------- the state
VARIABLES
  mediaDevices,    \* navigator.mediaDevices.getUserMedia exists (environment)
  video,           \* _video: id of the installed <video>, or None
  videoPromise,    \* _videoPromise: id of the acquisition it refers to, or None
  video_nonce,     \* _video_nonce
  controls,        \* _controls: id of the stored decode control, or None
  formats,         \* _formats
  options,         \* _options
  facingMode,      \* _facingMode
  torchState,      \* _torchState
  backgroundColor, \* _backgroundColor
  rootBackground,  \* document.documentElement.style.backgroundColor
  switchTorch,     \* the decode controls have a switchTorch method (environment)
  torchLight,      \* what switchTorch was last called with: the torch of the camera
  hidden,          \* number of hideBackground calls since the last showBackground
  priorBackground, \* rootBackground before the first of these hideBackground calls
  lastUiCall,      \* the torch or background call made last
  acqSt,           \* acqSt[a]: position of acquisition a in _startVideo and the closure
  acqNonce,        \* acqNonce[a]: the local video_nonce of _startVideo
  probeLive,       \* probeLive[a]: the probe stream of a has a live track
  streamLive,      \* streamLive[a]: newStream of a has a live track
  srcObject,       \* srcObject[a]: <video> a has newStream a attached
  inDoc,           \* ids of the <video> elements that are in the document
  kind,            \* kind[p]: the public call made by slot p
  pc,              \* pc[p]: position of call p
  awaits,          \* awaits[p]: the acquisition whose promise p awaits
  vid,             \* vid[p]: the local `video` of the call
  hints,           \* hints[p]: POSSIBLE_FORMATS handed to the reader, <<>> if none
  exec,            \* exec[p]: position of the promise executor of session p
  ctrl,            \* ctrl[p]: state of the decode control of session p
  settle,          \* settle[p]: state of the scan promise of session p
  outcome,         \* outcome[p]: how call p settled
  firstTerminal,   \* firstTerminal[p]: the first callback of session p that was not a
                   \* recoverable error (NoEvent before it): history of the engine
  warned,          \* number of console.warn calls made
  stopCalls        \* number of stopScan calls made

sessionVars == <<video, videoPromise, video_nonce, controls>>
optVars     == <<formats, options, facingMode>>
uiVars      == <<torchState, backgroundColor, rootBackground, switchTorch, torchLight,
                 hidden, priorBackground, lastUiCall>>
acqVars     == <<acqSt, acqNonce, probeLive, streamLive, srcObject, inDoc>>
callVars    == <<kind, pc, awaits, vid, hints, outcome>>
decodeVars  == <<exec, ctrl, settle, firstTerminal, warned>>
vars == <<mediaDevices, sessionVars, optVars, uiVars, acqVars, callVars,
          decodeVars, stopCalls>>

\* ------------------------------------------------------------ the inputs
BACK  == [facingMode |-> "environment"]
FORWARD == [facingMode |-> "user"]

\* the BarcodeFormat enum of the decode engine: the name of value i is at i + 1
BarcodeFormatNames ==
  <<"AZTEC", "CODABAR", "CODE_39", "CODE_93", "CODE_128", "DATA_MATRIX", "EAN_8",
    "EAN_13", "ITF", "MAXICODE", "PDF_417", "QR_CODE", "RSS_14", "RSS_EXPANDED",
    "UPC_A", "UPC_E", "UPC_EAN_EXTENSION">>

Digits == <<"0", "1", "2", "3", "4", "5", "6", "7", "8", "9">>

\* Number.prototype.toString of a natural number
RECURSIVE ToString(_)
ToString(n) ==
  IF n < 10 THEN Digits[n + 1] ELSE ToString(n \div 10) \o Digits[(n % 10) + 1]

\* Object.keys(BarcodeFormat): a numeric enum lists its values, then its names
BarcodeFormatKeys ==
  [i \in 1 .. Len(BarcodeFormatNames) |-> ToString(i - 1)] \o BarcodeFormatNames

\* BarcodeFormat.QR_CODE
QR_CODE == 11

NoOptions == [targetedFormats |-> <<>>, cameraDirection |-> ""]
ScanOptionsSet ==
  { [targetedFormats |-> <<>>, cameraDirection |-> "BACK"],
    [targetedFormats |-> <<"QR_CODE", "BOGUS">>, cameraDirection |-> "FRONT"] }

Recoverable == {"NotFoundException", "ChecksumException", "FormatException"}
Texts == {"hello", "bye"}
NoResult == [text |-> "", format |-> 0]
\* what the engine can hand to the callback: (result, error)
Events ==
  {[error |-> e, hasResult |-> FALSE, result |-> NoResult] :
      e \in Recoverable \cup {"Error", "none"}}
  \cup
  {[error |-> "none", hasResult |-> TRUE, result |-> [text |-> t, format |-> QR_CODE]] :
      t \in Texts \cup {""}}

NoEvent == [error |-> "", hasResult |-> FALSE, result |-> NoResult]

Pending == [st |-> "pending", val |-> "", format |-> ""]
\* {hasContent: true, content: result.getText(), format: result.getBarcodeFormat().toString()}
Resolved(r) == [st |-> "resolved", val |-> r.text, format |-> ToString(r.format)]
Rejected(why) == [st |-> "rejected", val |-> why, format |-> ""]

\* what the page may have set as the background colour of the document root
RootColors == {"", "red"}

\* ------------------------------------------------------------------ Init
\* the state after construction, in a page whose root background is bg and
\* whose decode controls have a torch or not
Start(bg, torch) ==
  /\ mediaDevices \in BOOLEAN
  /\ video = None
  /\ videoPromise = None
  /\ video_nonce = 0
  /\ controls = None
  /\ formats = <<>>
  /\ options = NoOptions
  /\ facingMode = BACK
  /\ torchState = FALSE
  /\ backgroundColor = "null"
  /\ rootBackground = bg
  /\ switchTorch = torch
  /\ torchLight = FALSE
  /\ hidden = 0
  /\ priorBackground = bg
  /\ lastUiCall = ""
  /\ acqSt = [a \in Procs |-> "none"]
  /\ acqNonce = [a \in Procs |-> 0]
  /\ probeLive = [a \in Procs |-> FALSE]
  /\ streamLive = [a \in Procs |-> FALSE]
  /\ srcObject = [a \in Procs |-> FALSE]
  /\ inDoc = {}
  /\ kind = [p \in Procs |-> "none"]
  /\ pc = [p \in Procs |-> "idle"]
  /\ awaits = [p \in Procs |-> None]
  /\ vid = [p \in Procs |-> None]
  /\ hints = [p \in Procs |-> <<>>]
  /\ exec = [p \in Procs |-> "none"]
  /\ ctrl = [p \in Procs |-> "none"]
  /\ settle = [p \in Procs |-> Pending]
  /\ outcome = [p \in Procs |-> Pending]
  /\ firstTerminal = [p \in Procs |-> NoEvent]
  /\ warned = 0
  /\ stopCalls = 0

Init == Start("", TRUE)

\* --------------------------------------------------------------- helpers
\* Object.keys(BarcodeFormat).indexOf(format)
IndexOf(keys, k) ==
  IF \E i \in 1 .. Len(keys) : keys[i] = k
    THEN (CHOOSE i \in 1 .. Len(keys) :
            keys[i] = k /\ \A j \in 1 .. (i - 1) : keys[j] # k) - 1
    ELSE -1

\* the value startScan pushes for a recognised format name
PushedFormat(format) == 0

\* the forEach of startScan: _formats after it
TargetedFormats(targeted) ==
  LET known == SelectSeq(targeted, LAMBDA f : IndexOf(BarcodeFormatKeys, f) >= 0)
  IN  [i \in 1 .. Len(known) |-> PushedFormat(known[i])]

FacingModeOf(o) ==
  IF o.cameraDirection # ""
    THEN (IF o.cameraDirection = "BACK" THEN BACK ELSE FORWARD)
    ELSE facingMode

\* stopStream: every track of the stream is stopped
StopStream(live, a) == [live EXCEPT ![a] = FALSE]

\* stopVideo without video.remove()
StopVideoDocKeeping(v) == inDoc

\* stopVideo: what it leaves of the streams and of the document
StopVideoStreams(v) == IF srcObject[v] THEN StopStream(streamLive, v) ELSE streamLive
StopVideoDoc(v) == inDoc \ {v}

\* _stop that counts only when it has a surface to tear down
StopCountingTeardowns ==
  IF video # None
    THEN /\ streamLive' = StopVideoStreams(video)
         /\ inDoc' = StopVideoDoc(video)
         /\ videoPromise' = None
         /\ video' = None
         /\ video_nonce' = video_nonce + 1
    ELSE UNCHANGED <<streamLive, inDoc, videoPromise, video, video_nonce>>

\* _stop
Stop ==
  /\ IF video # None
       THEN /\ streamLive' = StopVideoStreams(video)
            /\ inDoc' = StopVideoDoc(video)
            /\ videoPromise' = None
            /\ video' = None
       ELSE UNCHANGED <<streamLive, inDoc, videoPromise, video>>
  /\ video_nonce' = video_nonce + 1

\* _controls.stop() on the stored control
StopControls == [ctrl EXCEPT ![controls] = "stopped"]

\* the generation check of _startVideo: stop was called
Stale(a) == acqNonce[a] # video_nonce

\* StartsAcquisition without the test of the pending promise
StartsAcquisitionIgnoringPending == video = None

\* _getVideoElement starts an acquisition: no surface and no pending promise
StartsAcquisition == video = None /\ videoPromise = None

\* the synchronous part of _getVideoElement, called by slot p
GetVideoElement(p) ==
  /\ IF video # None
       THEN /\ pc' = [pc EXCEPT ![p] = "gotVideo"]
            /\ vid' = [vid EXCEPT ![p] = video]
            /\ UNCHANGED <<videoPromise, acqSt, acqNonce, awaits>>
       ELSE /\ pc' = [pc EXCEPT ![p] = "waiting"]
            /\ UNCHANGED vid
            /\ IF StartsAcquisition
                 THEN /\ videoPromise' = p
                      /\ awaits' = [awaits EXCEPT ![p] = p]
                      /\ acqNonce' = [acqNonce EXCEPT ![p] = video_nonce]
                      /\ acqSt' = [acqSt EXCEPT
                                     ![p] = IF mediaDevices THEN "probe" ELSE "failed"]
                 ELSE /\ awaits' = [awaits EXCEPT ![p] = videoPromise]
                      /\ UNCHANGED <<videoPromise, acqSt, acqNonce>>
  /\ UNCHANGED <<video, video_nonce, controls, probeLive, streamLive, srcObject, inDoc>>

\* ------------------------------------------------------ the public calls
\* slot p is free and every slot before it is taken
IsNextCall(p) == pc[p] = "idle" /\ \A q \in 1 .. (p - 1) : pc[q] # "idle"

Prepare(p) ==
  /\ IsNextCall(p)
  /\ kind' = [kind EXCEPT ![p] = "prepare"]
  /\ GetVideoElement(p)
  /\ UNCHANGED <<mediaDevices, optVars, uiVars, hints, outcome, decodeVars, stopCalls>>

StartScan(p, o) ==
  /\ IsNextCall(p)
  /\ kind' = [kind EXCEPT ![p] = "startScan"]
  /\ options' = o
  /\ formats' = TargetedFormats(o.targetedFormats)
  /\ facingMode' = FacingModeOf(o)
  /\ GetVideoElement(p)
  /\ UNCHANGED <<mediaDevices, uiVars, hints, outcome, decodeVars, stopCalls>>

ResumeScanning(p) ==
  /\ IsNextCall(p)
  /\ kind' = [kind EXCEPT ![p] = "resumeScanning"]
  /\ GetVideoElement(p)
  /\ UNCHANGED <<mediaDevices, optVars, uiVars, hints, outcome, decodeVars, stopCalls>>

\* pauseScanning that also runs _stop
PauseScanningStopping ==
  /\ controls # None
  /\ ctrl' = StopControls
  /\ controls' = None
  /\ Stop
  /\ UNCHANGED <<mediaDevices, optVars, uiVars, acqSt, acqNonce, probeLive, srcObject,
                 callVars, exec, settle, firstTerminal, warned, stopCalls>>

PauseScanning ==
  /\ controls # None
  /\ ctrl' = StopControls
  /\ controls' = None
  /\ UNCHANGED <<mediaDevices, video, videoPromise, video_nonce, optVars, uiVars,
                 acqVars, callVars, exec, settle, firstTerminal, warned, stopCalls>>

\* stopScan that also clears the stored torch state
StopScanClearingTorch ==
  /\ stopCalls < MaxStops
  /\ stopCalls' = stopCalls + 1
  /\ Stop
  /\ IF controls # None
       THEN ctrl' = StopControls /\ controls' = None
       ELSE UNCHANGED <<ctrl, controls>>
  /\ torchState' = FALSE
  /\ UNCHANGED <<mediaDevices, optVars, backgroundColor, rootBackground, switchTorch,
                 torchLight, hidden, priorBackground, lastUiCall, acqSt, acqNonce,
                 probeLive, srcObject, callVars, exec, settle, firstTerminal, warned>>

StopScan ==
  /\ stopCalls < MaxStops
  /\ stopCalls' = stopCalls + 1
  /\ Stop
  /\ IF controls # None
       THEN ctrl' = StopControls /\ controls' = None
       ELSE UNCHANGED <<ctrl, controls>>
  /\ UNCHANGED <<mediaDevices, optVars, uiVars, acqSt, acqNonce, probeLive, srcObject,
                 callVars, exec, settle, firstTerminal, warned>>

\* ------------------------------------------- the acquisition (_startVideo)
AcqUnchanged ==
  UNCHANGED <<mediaDevices, video_nonce, controls, optVars, uiVars, callVars,
              decodeVars, stopCalls>>

\* the browser grants the probe request: getUserMedia({audio: false, video: true})
ProbeGranted(a) ==
  /\ acqSt[a] = "probe"
  /\ acqSt' = [acqSt EXCEPT ![a] = "probeOk"]
  /\ probeLive' = [probeLive EXCEPT ![a] = TRUE]
  /\ UNCHANGED <<video, videoPromise, acqNonce, streamLive, srcObject, inDoc>>
  /\ AcqUnchanged

\* the browser rejects a camera request (the probe or the real one)
GetUserMediaRejected(a) ==
  /\ acqSt[a] \in {"probe", "real"}
  /\ acqSt' = [acqSt EXCEPT ![a] = "failed"]
  /\ UNCHANGED <<video, videoPromise, acqNonce, probeLive, streamLive, srcObject, inDoc>>
  /\ AcqUnchanged

\* after the first await: release the probe stream, first generation check,
\* the 'Camera already started' check, then the request of the real stream
AfterProbe(a) ==
  /\ acqSt[a] = "probeOk"
  /\ probeLive' = StopStream(probeLive, a)
  /\ acqSt' = [acqSt EXCEPT ![a] =
                 IF Stale(a) THEN "cancelled"
                 ELSE IF inDoc # {} THEN "failed"
                 ELSE "real"]
  /\ UNCHANGED <<video, videoPromise, acqNonce, streamLive, srcObject, inDoc>>
  /\ AcqUnchanged

\* the browser grants the real request: getUserMedia({video: _facingMode})
StreamGranted(a) ==
  /\ acqSt[a] = "real"
  /\ acqSt' = [acqSt EXCEPT ![a] = "realOk"]
  /\ streamLive' = [streamLive EXCEPT ![a] = TRUE]
  /\ UNCHANGED <<video, videoPromise, acqNonce, probeLive, srcObject, inDoc>>
  /\ AcqUnchanged

\* after the second await: second generation check, attach, start playback
AfterStream(a) ==
  /\ acqSt[a] = "realOk"
  /\ IF Stale(a)
       THEN /\ streamLive' = StopStream(streamLive, a)
            /\ acqSt' = [acqSt EXCEPT ![a] = "cancelled"]
            /\ UNCHANGED srcObject
       ELSE /\ srcObject' = [srcObject EXCEPT ![a] = TRUE]
            /\ acqSt' = [acqSt EXCEPT ![a] = "playing"]
            /\ UNCHANGED streamLive
  /\ UNCHANGED <<video, videoPromise, acqNonce, probeLive, inDoc>>
  /\ AcqUnchanged

\* video.play() resolves
PlayStarted(a) ==
  /\ acqSt[a] = "playing"
  /\ acqSt' = [acqSt EXCEPT ![a] = "played"]
  /\ UNCHANGED <<video, videoPromise, acqNonce, probeLive, streamLive, srcObject, inDoc>>
  /\ AcqUnchanged

\* video.play() rejects: _startVideo throws out of the await
PlayRejected(a) ==
  /\ acqSt[a] = "playing"
  /\ acqSt' = [acqSt EXCEPT ![a] = "failed"]
  /\ UNCHANGED <<video, videoPromise, acqNonce, probeLive, streamLive, srcObject, inDoc>>
  /\ AcqUnchanged

\* after the third await: third generation check, return video
AfterPlay(a) ==
  /\ acqSt[a] = "played"
  /\ IF Stale(a)
       THEN /\ streamLive' = StopStream(streamLive, a)
            /\ acqSt' = [acqSt EXCEPT ![a] = "cancelled"]
       ELSE /\ acqSt' = [acqSt EXCEPT ![a] = "returned"]
            /\ UNCHANGED streamLive
  /\ UNCHANGED <<video, videoPromise, acqNonce, probeLive, srcObject, inDoc>>
  /\ AcqUnchanged

\* the closure of _getVideoElement resumes with the video of _startVideo:
\* it inserts the surface, installs it and clears the pending promise
InstallVideo(a) ==
  /\ acqSt[a] = "returned"
  /\ inDoc' = inDoc \cup {a}
  /\ video' = a
  /\ videoPromise' = None
  /\ acqSt' = [acqSt EXCEPT ![a] = "resolved"]
  /\ UNCHANGED <<acqNonce, probeLive, streamLive, srcObject>>
  /\ AcqUnchanged

AcqSettled == {"resolved", "cancelled", "failed"}

\* _getVideoElement resumes from `await this._videoPromise`
AwaitVideo(p) ==
  /\ pc[p] = "waiting"
  /\ acqSt[awaits[p]] \in AcqSettled
  /\ IF acqSt[awaits[p]] = "resolved"
       THEN IF video = None
              THEN /\ pc' = [pc EXCEPT ![p] = "rejected"]
                   /\ outcome' = [outcome EXCEPT
                                    ![p] = Rejected("Unexpected null value for _video")]
                   /\ UNCHANGED vid
              ELSE /\ pc' = [pc EXCEPT ![p] = "gotVideo"]
                   /\ vid' = [vid EXCEPT ![p] = video]
                   /\ UNCHANGED outcome
       ELSE /\ pc' = [pc EXCEPT ![p] = "rejected"]
            /\ outcome' = [outcome EXCEPT
                             ![p] = Rejected(IF acqSt[awaits[p]] = "cancelled"
                                               THEN "ScanCanceled" ELSE "Error")]
            /\ UNCHANGED vid
  /\ UNCHANGED <<mediaDevices, sessionVars, optVars, uiVars, acqVars, kind, awaits,
                 hints, decodeVars, stopCalls>>

\* prepare returns once it has the video
PrepareDone(p) ==
  /\ pc[p] = "gotVideo"
  /\ kind[p] = "prepare"
  /\ pc' = [pc EXCEPT ![p] = "resolved"]
  /\ outcome' = [outcome EXCEPT ![p] = [st |-> "resolved", val |-> "", format |-> ""]]
  /\ UNCHANGED <<mediaDevices, sessionVars, optVars, uiVars, acqVars, kind, awaits,
                 vid, hints, decodeVars, stopCalls>>

\* ------------------------------- the decode session (_getFirstResultFromReader)
\* startScan and resumeScanning enter _getFirstResultFromReader: the hints are
\* built from _formats, the promise executor runs and calls
\* reader.decodeFromVideoElement(video, callback)
BeginDecode(p) ==
  /\ pc[p] = "gotVideo"
  /\ kind[p] \in {"startScan", "resumeScanning"}
  /\ hints' = [hints EXCEPT ![p] = formats]
  /\ exec' = [exec EXCEPT ![p] = "creating"]
  /\ pc' = [pc EXCEPT ![p] = "awaitResult"]
  /\ UNCHANGED <<mediaDevices, sessionVars, optVars, uiVars, acqVars, kind, awaits,
                 vid, outcome, ctrl, settle, firstTerminal, warned, stopCalls>>

\* the engine builds the control of session p and starts its decode loop
ControlCreated(p) ==
  /\ exec[p] = "creating"
  /\ exec' = [exec EXCEPT ![p] = "created"]
  /\ ctrl' = [ctrl EXCEPT ![p] = "running"]
  /\ UNCHANGED <<mediaDevices, sessionVars, optVars, uiVars, acqVars, callVars,
                 settle, firstTerminal, warned, stopCalls>>

\* decodeFromVideoElement rejects: the async executor throws out of its await,
\* and nothing settles the promise
ControlFailed(p) ==
  /\ exec[p] = "creating"
  /\ exec' = [exec EXCEPT ![p] = "failed"]
  /\ UNCHANGED <<mediaDevices, sessionVars, optVars, uiVars, acqVars, callVars,
                 ctrl, settle, firstTerminal, warned, stopCalls>>

\* the executor resumes from its await: this._controls = <the control>
StoreControl(p) ==
  /\ exec[p] = "created"
  /\ exec' = [exec EXCEPT ![p] = "stored"]
  /\ controls' = p
  /\ UNCHANGED <<mediaDevices, video, videoPromise, video_nonce, optVars, uiVars,
                 acqVars, callVars, ctrl, settle, firstTerminal, warned, stopCalls>>

\* IsRecoverable without FormatException
IsRecoverableNoFormat(error) == error \in {"NotFoundException", "ChecksumException"}

IsRecoverable(error) ==
  error \in {"NotFoundException", "ChecksumException", "FormatException"}

\* Callback without the test of the result's text
CallbackNoTextCheck(ev) ==
  IF ev.error # "none"
    THEN IF IsRecoverable(ev.error) THEN Pending ELSE Rejected(ev.error)
    ELSE IF ~ev.hasResult
           THEN Rejected("Unexpectedly called with no error nor result")
           ELSE Resolved(ev.result)

\* the engine callback (result, error): what it asks of the promise
\* (Pending: it returns without calling resolve or reject)
Callback(ev) ==
  IF ev.error # "none"
    THEN IF IsRecoverable(ev.error) THEN Pending ELSE Rejected(ev.error)
    ELSE IF ~ev.hasResult
           THEN Rejected("Unexpectedly called with no error nor result")
           ELSE IF ev.result.text = ""
                  THEN Rejected("Unexpectedly called with no error nor text result")
                  ELSE Resolved(ev.result)

\* the callback logs a warning for an error it ignores
Warns(ev) == IF ev.error # "none" /\ IsRecoverable(ev.error) THEN 1 ELSE 0

\* resolve and reject act on a pending promise only
SettleWith(s, asked) == IF s.st = "pending" THEN asked ELSE s

\* the running control of session p reports a frame
EngineCallback(p, ev) ==
  /\ ctrl[p] = "running"
  /\ IsRecoverable(ev.error) => warned < MaxWarnings
  /\ settle' = [settle EXCEPT ![p] = SettleWith(settle[p], Callback(ev))]
  /\ warned' = warned + Warns(ev)
  /\ firstTerminal' = [firstTerminal EXCEPT
                         ![p] = IF firstTerminal[p] = NoEvent /\ ev.error \notin Recoverable
                                  THEN ev ELSE @]
  /\ UNCHANGED <<mediaDevices, sessionVars, optVars, uiVars, acqVars, callVars,
                 exec, ctrl, stopCalls>>

\* what the call returns once the scan promise has settled
\* (the resolved value is an object, so startScan's `!scanResult` never holds)
CallResult(p) ==
  IF kind[p] = "resumeScanning" /\ settle[p].st = "resolved"
    THEN [st |-> "resolved", val |-> "", format |-> ""]
    ELSE settle[p]

\* the session resumes from `await new Promise(...)`: the finally block, then
\* the caller gets the result or the exception
Finally(p) ==
  /\ pc[p] = "awaitResult"
  /\ settle[p].st # "pending"
  /\ IF controls # None
       THEN /\ ctrl' = StopControls
            /\ controls' = None
            /\ Stop
       ELSE UNCHANGED <<ctrl, controls, video, videoPromise, video_nonce,
                        streamLive, inDoc>>
  /\ pc' = [pc EXCEPT ![p] = settle[p].st]
  /\ outcome' = [outcome EXCEPT ![p] = CallResult(p)]
  /\ UNCHANGED <<mediaDevices, optVars, uiVars, acqSt, acqNonce, probeLive, srcObject,
                 kind, awaits, vid, hints, exec, settle, firstTerminal, warned, stopCalls>>

\* ------------------------------------------------- torch and background
UiUnchanged ==
  UNCHANGED <<mediaDevices, sessionVars, optVars, acqVars, callVars, decodeVars,
              stopCalls, switchTorch>>

\* the guard of the three torch calls: this._controls && this._controls.switchTorch
HasTorch == controls # None /\ switchTorch

DisableTorch ==
  /\ lastUiCall' = "disableTorch"
  /\ IF HasTorch
       THEN torchLight' = FALSE /\ torchState' = FALSE
       ELSE UNCHANGED <<torchLight, torchState>>
  /\ UNCHANGED <<backgroundColor, rootBackground, hidden, priorBackground>>
  /\ UiUnchanged

\* enableTorch without its test of this._controls
EnableTorchUnguarded ==
  /\ lastUiCall' = "enableTorch"
  /\ torchLight' = TRUE /\ torchState' = TRUE
  /\ UNCHANGED <<backgroundColor, rootBackground, hidden, priorBackground>>
  /\ UiUnchanged

EnableTorch ==
  /\ lastUiCall' = "enableTorch"
  /\ IF HasTorch
       THEN torchLight' = TRUE /\ torchState' = TRUE
       ELSE UNCHANGED <<torchLight, torchState>>
  /\ UNCHANGED <<backgroundColor, rootBackground, hidden, priorBackground>>
  /\ UiUnchanged

ToggleTorch ==
  /\ lastUiCall' = "toggleTorch"
  /\ IF HasTorch
       THEN torchLight' = TRUE
       ELSE UNCHANGED torchLight
  /\ UNCHANGED <<torchState, backgroundColor, rootBackground, hidden, priorBackground>>
  /\ UiUnchanged

\* getTorchState
GetTorchState == [isEnabled |-> torchState]

HideBackground ==
  /\ hidden < MaxHides
  /\ lastUiCall' = "hideBackground"
  /\ backgroundColor' = rootBackground
  /\ rootBackground' = "transparent"
  /\ hidden' = hidden + 1
  /\ priorBackground' = IF hidden = 0 THEN rootBackground ELSE priorBackground
  /\ UNCHANGED <<torchState, torchLight>>
  /\ UiUnchanged

\* this._backgroundColor || ''
ShowBackground ==
  /\ lastUiCall' = "showBackground"
  /\ rootBackground' = IF backgroundColor \in {"null", ""} THEN "" ELSE backgroundColor
  /\ hidden' = 0
  /\ UNCHANGED <<torchState, torchLight, backgroundColor, priorBackground>>
  /\ UiUnchanged

\* ------------------------------------------------------ the specification
Next ==
  \/ \E p \in Procs : Prepare(p)
  \/ \E p \in Procs, o \in ScanOptionsSet : StartScan(p, o)
  \/ \E p \in Procs : ResumeScanning(p)
  \/ PauseScanning
  \/ StopScan
  \/ \E a \in Procs : ProbeGranted(a)
  \/ \E a \in Procs : GetUserMediaRejected(a)
  \/ \E a \in Procs : AfterProbe(a)
  \/ \E a \in Procs : StreamGranted(a)
  \/ \E a \in Procs : AfterStream(a)
  \/ \E a \in Procs : PlayStarted(a)
  \/ \E a \in Procs : PlayRejected(a)
  \/ \E a \in Procs : AfterPlay(a)
  \/ \E a \in Procs : InstallVideo(a)
  \/ \E p \in Procs : AwaitVideo(p)
  \/ \E p \in Procs : PrepareDone(p)
  \/ \E p \in Procs : BeginDecode(p)
  \/ \E p \in Procs : ControlCreated(p)
  \/ \E p \in Procs : ControlFailed(p)
  \/ \E p \in Procs : StoreControl(p)
  \/ \E p \in Procs, ev \in Events : EngineCallback(p, ev)
  \/ \E p \in Procs : Finally(p)

Spec == Init /\ [][Next]_vars

\* The event loop runs every continuation that is ready: each step of the code
\* that follows an await is taken once its promise has settled.  Nothing is
\* assumed of the browser, of the engine or of the callers.
FairSpec ==
  /\ Spec
  /\ \A a \in Procs :
       /\ WF_vars(AfterProbe(a))
       /\ WF_vars(AfterStream(a))
       /\ WF_vars(AfterPlay(a))
       /\ WF_vars(InstallVideo(a))
  /\ \A p \in Procs :
       /\ WF_vars(AwaitVideo(p))
       /\ WF_vars(PrepareDone(p))
       /\ WF_vars(BeginDecode(p))
       /\ WF_vars(StoreControl(p))
       /\ WF_vars(Finally(p))

\* One page with its torch and its background: one startScan call whose camera
\* requests are granted, with pauseScanning and stopScan, and the torch and
\* background calls.
UiProcs == {1}

UiInit == \E bg \in RootColors, torch \in BOOLEAN : Start(bg, torch)

UiNext ==
  \/ \E p \in UiProcs, o \in ScanOptionsSet : StartScan(p, o)
  \/ PauseScanning
  \/ StopScan
  \/ \E a \in UiProcs : ProbeGranted(a)
  \/ \E a \in UiProcs : AfterProbe(a)
  \/ \E a \in UiProcs : StreamGranted(a)
  \/ \E a \in UiProcs : AfterStream(a)
  \/ \E a \in UiProcs : PlayStarted(a)
  \/ \E a \in UiProcs : AfterPlay(a)
  \/ \E a \in UiProcs : InstallVideo(a)
  \/ \E p \in UiProcs : AwaitVideo(p)
  \/ \E p \in UiProcs : BeginDecode(p)
  \/ \E p \in UiProcs : ControlCreated(p)
  \/ \E p \in UiProcs : StoreControl(p)
  \/ \E p \in UiProcs, ev \in Events : EngineCallback(p, ev)
  \/ \E p \in UiProcs : Finally(p)
  \/ DisableTorch
  \/ EnableTorch
  \/ ToggleTorch
  \/ HideBackground
  \/ ShowBackground

UiSpec == UiInit /\ [][UiNext]_vars

\* ================================================================ claims
CallSettled == {"resolved", "rejected"}

\* the acquisition a is running: started and not yet resolved or rejected
InFlight(st) == st \notin (AcqSettled \cup {"none"})

\* C1: a startScan made after an earlier acquisition was cancelled by stopScan
\* acquires a new surface: it never starts out awaiting an acquisition that has
\* already been cancelled.
C1_RestartAfterCancel ==
  [][\A p \in Procs :
       (pc[p] = "idle" /\ kind'[p] = "startScan" /\ pc'[p] = "waiting")
         => ~(kind[awaits'[p]] = "startScan" /\ acqSt[awaits'[p]] = "cancelled")]_vars

\* C2: when an acquisition finishes running after a stop has changed the
\* generation counter it captured, its probe stream and its real stream have no
\* live track and its surface is not installed.
C2_NoLiveStreamAfterStop ==
  [][\A a \in Procs :
       (InFlight(acqSt[a]) /\ acqSt'[a] \in AcqSettled /\ acqNonce[a] # video_nonce')
         => /\ ~probeLive'[a]
            /\ ~streamLive'[a]
            /\ video' # a
            /\ a \notin inDoc']_vars

\* C3: at the step that installs the surface of acquisition a as the current
\* surface and inserts it into the document, the generation counter equals the
\* value a captured.
C3_InstallOnlyIfCurrent ==
  [][\A a \in Procs :
       ((video' = a /\ video # a) \/ (a \in inDoc' /\ a \notin inDoc))
         => acqNonce[a] = video_nonce]_vars

\* C4: at most one video surface is in the document.
C4_AtMostOneSurface == Cardinality(inDoc) <= 1

\* C4 witness: a second surface is in the document after the first one was
\* installed and removed.
C4_Witness ==
  \E a \in Procs, b \in Procs :
    a # b /\ acqSt[a] = "resolved" /\ a \notin inDoc /\ inDoc = {b} /\ video = b

\* C5: at most one decode control is running.
C5_AtMostOneControl == Cardinality({c \in Procs : ctrl[c] = "running"}) <= 1

\* C6: a startScan whose decode control was stopped while it awaits its result
\* eventually settles.
C6_StartScanSettles ==
  \A p \in Procs :
    (kind[p] = "startScan" /\ pc[p] = "awaitResult" /\ ctrl[p] = "stopped")
      ~> (pc[p] \in CallSettled)

\* C7: once a decode session has terminated (its scan promise settled and the
\* call returned), the control created for it is not running, and the stream of
\* its surface is stopped and the surface out of the document.
C7_SessionEndReleases ==
  \A p \in Procs :
    (pc[p] \in CallSettled /\ settle[p].st # "pending")
      => /\ ctrl[p] # "running"
         /\ ~streamLive[vid[p]]
         /\ vid[p] \notin inDoc

\* C8: once startScan has rejected, the acquisition it awaited and the surface it
\* used hold no live stream and no surface in the document.
C8_RejectedLeavesNothing ==
  \A p \in Procs :
    (kind[p] = "startScan" /\ pc[p] = "rejected")
      => \A a \in {awaits[p], vid[p]} \ {None} :
           ~probeLive[a] /\ ~streamLive[a] /\ a \notin inDoc

\* C9: a callback carrying a recoverable error (it logs a warning) changes
\* nothing else: no promise, control, surface, stream, counter or call moves;
\* and a scan promise changes only in a step that logs no warning, after a
\* callback that was not a recoverable error.
C9_RecoverableIgnored ==
  [][/\ warned' # warned
          => UNCHANGED <<mediaDevices, sessionVars, optVars, uiVars, acqVars,
                         callVars, exec, ctrl, settle, firstTerminal, stopCalls>>
     /\ \A p \in Procs :
          settle'[p] # settle[p] => (warned' = warned /\ firstTerminal'[p] # NoEvent)]_vars

\* C9 witness: two recoverable errors were ignored and the scan is still pending.
C9_Witness ==
  /\ warned >= 2
  /\ \E p \in Procs :
       /\ kind[p] = "startScan" /\ pc[p] = "awaitResult"
       /\ ctrl[p] = "running" /\ settle[p] = Pending

\* what the first callback that is no recoverable error makes of the promise
Expected(ev) ==
  IF ev = NoEvent THEN "pending"
  ELSE IF ev.error = "none" /\ ev.hasResult /\ ev.result.text # "" THEN "resolved"
  ELSE "rejected"

\* C10: the scan promise is settled by the first callback that is no
\* recoverable error, and by it alone: resolved with its text if it carries
\* one, rejected otherwise; startScan returns that outcome; no later callback
\* changes it.
C10_FirstTerminalWins ==
  /\ [](\A p \in Procs :
          /\ settle[p].st = Expected(firstTerminal[p])
          /\ settle[p].st = "resolved" => settle[p].val = firstTerminal[p].result.text
          /\ (kind[p] = "startScan" /\ pc[p] \in CallSettled /\ settle[p].st # "pending")
               => outcome[p] = settle[p])
  /\ [][\A p \in Procs : firstTerminal[p] # NoEvent => settle'[p] = settle[p]]_vars

\* C10 witness: after two recoverable errors startScan resolved with "hello".
C10_Witness ==
  /\ warned >= 2
  /\ \E p \in Procs :
       /\ kind[p] = "startScan" /\ pc[p] = "resolved"
       /\ firstTerminal[p].result.text = "hello"
       /\ outcome[p].val = "hello"

\* C11: stopScan is terminal. In the state right after a stopScan call, made
\* from any reachable state, there is no current video surface and no active
\* decode control; the control that was active is stopped, and the surface that
\* was installed is out of the document with the tracks of its stream stopped.
C11_StopScanTerminal ==
  [][stopCalls' = stopCalls + 1 =>
       /\ video' = None
       /\ controls' = None
       /\ controls # None => ctrl'[controls] = "stopped"
       /\ video # None => video \notin inDoc' /\ ~streamLive'[video]]_vars

\* stopScan was called on a decoding session: its surface and control are gone
C11_Witness ==
  /\ stopCalls >= 1
  /\ video = None
  /\ controls = None
  /\ \E p \in Procs :
       /\ ctrl[p] = "stopped"
       /\ vid[p] # None
       /\ acqSt[vid[p]] = "resolved"
       /\ vid[p] \notin inDoc
       /\ ~streamLive[vid[p]]

\* C12: enableTorch and disableTorch, called when no decode control is active or
\* when the active control has no torch capability, complete and leave
\* getTorchState().isEnabled, the torch and every session field unchanged.
C12_TorchCallWithoutControl ==
  [][(EnableTorch \/ DisableTorch) /\ ~HasTorch =>
       /\ GetTorchState'.isEnabled = GetTorchState.isEnabled
       /\ UNCHANGED <<mediaDevices, sessionVars, optVars, torchLight, backgroundColor,
                      rootBackground, acqVars, callVars, decodeVars, stopCalls>>]_vars

\* disableTorch was called after the control that lit the torch was cleared:
\* the stored torch state is still true
C12_Witness ==
  /\ lastUiCall = "disableTorch"
  /\ controls = None
  /\ GetTorchState.isEnabled

\* C13: pauseScanning stops and clears the active decode control only. It leaves
\* the current video surface in the document with the tracks of its stream
\* live, and leaves the pending acquisition, the generation counter, the stored
\* options and every other control unchanged.
C13_PauseStopsControlOnly ==
  [][PauseScanning =>
       /\ controls' = None
       /\ ctrl'[controls] = "stopped"
       /\ \A q \in Procs \ {controls} : ctrl'[q] = ctrl[q]
       /\ video # None => video \in inDoc' /\ streamLive'[video]
       /\ UNCHANGED <<video, videoPromise, video_nonce, acqVars, optVars>>]_vars

\* a decoding session was paused and nothing was stopped otherwise: its surface
\* is installed and live, its control stopped and cleared
C13_Witness ==
  /\ controls = None
  /\ video # None
  /\ video \in inDoc
  /\ streamLive[video]
  /\ video_nonce = 0
  /\ \E p \in Procs : ctrl[p] = "stopped" /\ vid[p] = video

\* C14: after one or more hideBackground calls followed by showBackground, the
\* background colour of the document root is the value it had before the first
\* hideBackground of that sequence.
C14_ShowRestoresPrior ==
  [][ShowBackground /\ hidden >= 1 => rootBackground' = priorBackground]_vars

\* the engine's format values of the names in targeted that the engine has
NamedFormats(targeted) ==
  {IndexOf(BarcodeFormatNames, targeted[i]) : i \in DOMAIN targeted} \ {-1}

\* C15: when startScan is given target formats, the format filter handed to the
\* decode engine holds exactly the engine's format values of the names the
\* engine recognises: each recognised name contributes its own value, and an
\* unrecognised name is left out without failing the call.
C15_FilterHoldsNamedFormats ==
  [][\A p \in Procs :
       (/\ kind[p] = "startScan"
        /\ exec[p] = "none"
        /\ exec'[p] = "creating"
        /\ options.targetedFormats # <<>>)
       => {hints'[p][i] : i \in DOMAIN hints'[p]} = NamedFormats(options.targetedFormats)]_vars

\* the acquisitions that are running
Acquiring == {a \in Procs : InFlight(acqSt[a])}

\* C16: at most one camera acquisition is in flight at any time, and one is
\* started only when no surface is installed and none is pending. A prepare,
\* startScan or resumeScanning call made while an acquisition is pending awaits
\* that acquisition and starts none; one made while a surface is installed
\* starts none and gets the installed surface.
C16_OneAcquisition ==
  /\ [](Cardinality(Acquiring) <= 1)
  /\ [][\A p \in Procs :
          (pc[p] = "idle" /\ pc'[p] # "idle") =>
            /\ acqSt' # acqSt => video = None /\ Acquiring = {} /\ Acquiring' \subseteq {p}
            /\ Acquiring # {} => acqSt' = acqSt /\ pc'[p] = "waiting" /\ awaits'[p] \in Acquiring
            /\ video # None => acqSt' = acqSt /\ pc'[p] = "gotVideo" /\ vid'[p] = video]_vars

\* two calls await the one acquisition that is in flight
C16_Witness ==
  \E p \in Procs, q \in Procs :
    /\ p # q
    /\ pc[p] = "waiting" /\ pc[q] = "waiting"
    /\ awaits[p] = p /\ awaits[q] = p
    /\ Acquiring = {p}

\* C17: each stopScan call increases the generation counter by exactly one,
\* whether or not a surface or a decode control exists, and no step decreases
\* the counter.
C17_StopScanCounts ==
  [][/\ stopCalls' = stopCalls + 1 => video_nonce' = video_nonce + 1
     /\ video_nonce' >= video_nonce]_vars

\* stopScan was called before any camera was requested: nothing to tear down,
\* and the counter has moved
C17_Witness ==
  /\ stopCalls = 1
  /\ video_nonce = 1
  /\ \A a \in Procs : acqSt[a] = "none" /\ ctrl[a] = "none"

\* C18: the generation counter is incremented only by stopScan calls. No other
\* step (a decode session ending by a result or an error, pauseScanning,
\* prepare, startScan, resumeScanning) changes it, so its value is the number of
\* stopScan calls made so far.
C18_CounterCountsStopScans == video_nonce = stopCalls

\* C19: a decode control never outlives the video surface it was built from:
\* every control that was created and not yet stopped was built from the
\* surface that is installed now.
C19_ControlOnInstalledSurface ==
  \A p \in Procs : ctrl[p] = "running" => video # None /\ vid[p] = video

\* C20: the stored torch state is changed only by enableTorch, to true, and by
\* disableTorch, to false, when a decode control with the torch capability is
\* active. toggleTorch, pauseScanning, stopScan and the end of a decode session
\* leave getTorchState().isEnabled unchanged, so it can stay true when no decode
\* control is active.
C20_TorchStateWriters ==
  [][/\ GetTorchState'.isEnabled # GetTorchState.isEnabled =>
          /\ HasTorch
          /\ \/ EnableTorch /\ GetTorchState'.isEnabled
             \/ DisableTorch /\ ~GetTorchState'.isEnabled
     /\ (ToggleTorch \/ PauseScanning \/ StopScan \/ \E p \in Procs : Finally(p)) =>
          GetTorchState'.isEnabled = GetTorchState.isEnabled]_vars

\* the torch was enabled on a control that has since been stopped and cleared:
\* the stored torch state is still true
C20_Witness ==
  /\ GetTorchState.isEnabled
  /\ torchLight
  /\ controls = None
  /\ \E p \in Procs : ctrl[p] = "stopped"

====
